---- MODULE Spec2Model ----
(***************************************************************************)
(* Model of crates/rdma-sys/src/rsrdma.c: four C wrappers around the       *)
(* inline verbs primitives ibv_query_device_ex, ibv_query_port,            *)
(* ibv_query_gid_ex and ibv_create_cq_ex.                                  *)
(*                                                                         *)
(* The file has no globals and no statics, so the program itself has no    *)
(* state.  The variables are the two observable histories of a run:        *)
(*   hw   what the verbs library was asked (one record per primitive       *)
(*        invocation: primitive, arguments by position, result);           *)
(*   app  what the caller of the wrappers did and saw (one record per      *)
(*        wrapper call: wrapper, arguments by position, returned value).   *)
(* The verbs library is outside the file: its answer to an invocation is   *)
(* an arbitrary value of the result type, chosen by the environment.       *)
(***************************************************************************)
EXTENDS Integers, Sequences, FiniteSets, TLC

VARIABLES hw, app

vars == <<hw, app>>

----------------------------------------------------------------------------
(* Bounds of the model *)

MaxCalls == 2      \* wrapper calls in one run
MaxContext == 1    \* distinct struct ibv_context * values
MaxPtr == 1        \* distinct non-null struct pointers handed in by the caller
MaxPort == 1       \* port numbers 1..MaxPort
MaxGidIndex == 1   \* GID indices 0..MaxGidIndex
MaxFlags == 0      \* flag words 0..MaxFlags
MaxHandle == 1     \* distinct non-null struct ibv_cq_ex * values

(* C values *)

NULL == 0
EINVAL == 22

Contexts == 1..MaxContext
Ptrs == 1..MaxPtr
PtrsOrNull == {NULL} \cup Ptrs
PortNums == 1..MaxPort
GidIndexes == 0..MaxGidIndex
Flags == 0..MaxFlags
StatusCodes == {0, EINVAL}
CqHandles == {NULL} \cup (1..MaxHandle)

----------------------------------------------------------------------------
(* The primitives, as the wrappers see them: an invocation hands the        *)
(* library its arguments in order and yields the library's answer.          *)

Invocation(fn, args, result) == [fn |-> fn, args |-> args, ret |-> result]

ibv_query_device_ex(context, input, attr, answer) ==
    Invocation("ibv_query_device_ex", <<context, input, attr>>, answer)

ibv_query_port(context, port_num, port_attr, answer) ==
    Invocation("ibv_query_port", <<context, port_num, port_attr>>, answer)

ibv_query_gid_ex(context, port_num, gid_index, entry, flags, answer) ==
    Invocation("ibv_query_gid_ex",
               <<context, port_num, gid_index, entry, flags>>, answer)

ibv_create_cq_ex(context, cq_attr, answer) ==
    Invocation("ibv_create_cq_ex", <<context, cq_attr>>, answer)

----------------------------------------------------------------------------
(* The wrappers.  Each yields the primitive invocations it makes, in order, *)
(* and the value it returns to its caller.                                  *)

Returning(invocations, value) == [calls |-> invocations, ret |-> value]

rs_ibv_query_device_ex(context, input, attr, answer) ==
    LET r == ibv_query_device_ex(context, input, attr, answer)
    IN  Returning(<<r>>, r.ret)

rs_ibv_query_port(context, port_num, port_attr, answer) ==
    LET r == ibv_query_port(context, port_num, port_attr, answer)
    IN  Returning(<<r>>, r.ret)

\* rs_ibv_query_gid_ex with port_num and gid_index exchanged in the call.
rs_ibv_query_gid_ex_swapped(context, port_num, gid_index, entry, flags, answer) ==
    LET r == ibv_query_gid_ex(context, gid_index, port_num, entry, flags, answer)
    IN  Returning(<<r>>, r.ret)

rs_ibv_query_gid_ex(context, port_num, gid_index, entry, flags, answer) ==
    LET r == ibv_query_gid_ex(context, port_num, gid_index, entry, flags, answer)
    IN  Returning(<<r>>, r.ret)

rs_ibv_create_cq_ex(context, cq_attr, answer) ==
    LET r == ibv_create_cq_ex(context, cq_attr, answer)
    IN  Returning(<<r>>, r.ret)

----------------------------------------------------------------------------
(* A run: the caller calls wrappers, one after another. *)

Init ==
    /\ hw = <<>>
    /\ app = <<>>

CallQueryDeviceEx ==
    \E context \in Contexts, input \in PtrsOrNull, attr \in Ptrs,
       answer \in StatusCodes :
        LET r == rs_ibv_query_device_ex(context, input, attr, answer)
        IN  /\ Len(app) < MaxCalls
            /\ hw' = hw \o r.calls
            /\ app' = Append(app, [fn |-> "rs_ibv_query_device_ex",
                                   args |-> <<context, input, attr>>,
                                   ret |-> r.ret])

CallQueryPort ==
    \E context \in Contexts, port_num \in PortNums, port_attr \in Ptrs,
       answer \in StatusCodes :
        LET r == rs_ibv_query_port(context, port_num, port_attr, answer)
        IN  /\ Len(app) < MaxCalls
            /\ hw' = hw \o r.calls
            /\ app' = Append(app, [fn |-> "rs_ibv_query_port",
                                   args |-> <<context, port_num, port_attr>>,
                                   ret |-> r.ret])

CallQueryGidEx ==
    \E context \in Contexts, port_num \in PortNums, gid_index \in GidIndexes,
       entry \in Ptrs, flags \in Flags, answer \in StatusCodes :
        LET r == rs_ibv_query_gid_ex(context, port_num, gid_index, entry,
                                     flags, answer)
        IN  /\ Len(app) < MaxCalls
            /\ hw' = hw \o r.calls
            /\ app' = Append(app, [fn |-> "rs_ibv_query_gid_ex",
                                   args |-> <<context, port_num, gid_index,
                                              entry, flags>>,
                                   ret |-> r.ret])

CallCreateCqEx ==
    \E context \in Contexts, cq_attr \in Ptrs, answer \in CqHandles :
        LET r == rs_ibv_create_cq_ex(context, cq_attr, answer)
        IN  /\ Len(app) < MaxCalls
            /\ hw' = hw \o r.calls
            /\ app' = Append(app, [fn |-> "rs_ibv_create_cq_ex",
                                   args |-> <<context, cq_attr>>,
                                   ret |-> r.ret])

Next ==
    \/ CallQueryDeviceEx
    \/ CallQueryPort
    \/ CallQueryGidEx
    \/ CallCreateCqEx

Spec == Init /\ [][Next]_vars

----------------------------------------------------------------------------
(* Properties *)

PrimitiveOf(fn) ==
    CASE fn = "rs_ibv_query_device_ex" -> "ibv_query_device_ex"
      [] fn = "rs_ibv_query_port"      -> "ibv_query_port"
      [] fn = "rs_ibv_query_gid_ex"    -> "ibv_query_gid_ex"
      [] fn = "rs_ibv_create_cq_ex"    -> "ibv_create_cq_ex"

\* C1: every wrapper call invokes its own primitive exactly once, with the
\* caller's arguments in the caller's positions, and returns the primitive's
\* result unchanged; so the history of primitive invocations is, call for
\* call, the history the caller would have produced by calling the
\* primitives directly, whatever was called before.
PassThrough ==
    /\ Len(hw) = Len(app)
    /\ \A i \in 1..Len(app) :
        /\ i <= Len(hw)
        /\ hw[i].fn = PrimitiveOf(app[i].fn)
        /\ hw[i].args = app[i].args
        /\ hw[i].ret = app[i].ret

\* A run in which the GID query was answered with a failure status and the
\* queue creation with a null handle, both seen by the caller.
PassThroughWitness ==
    /\ Len(app) = 2
    /\ app[1].fn = "rs_ibv_query_gid_ex"
    /\ app[1].args[2] # app[1].args[3]
    /\ app[1].ret = EINVAL
    /\ app[2].fn = "rs_ibv_create_cq_ex"
    /\ app[2].ret = NULL

====
